---- MODULE Spec2Model ----
(***************************************************************************)
(* Model of src/algorithms/content_based_kmeans.py: predict(), the         *)
(* content-based recommender that clusters the item vectors with k-means   *)
(* and draws each user's recommendations from the clusters in proportion   *)
(* to the clusters' share of the catalog.                                  *)
(*                                                                         *)
(* An RDD is a bag (multiset): rows carry their multiplicity and have no   *)
(* order.  Raw cosine scores are rounded to three decimals by the code and *)
(* are kept here as integers in thousandths; cluster fractions are rounded *)
(* to two decimals and are kept as integers in hundredths.                 *)
(*                                                                         *)
(* The pipeline is run twice on the same inputs (Runs): the stages before  *)
(* the per-(user, cluster) cut do not depend on the order of the rows and  *)
(* are shared, the cut and the rescaling are taken once per run, each with *)
(* its own order of the rows inside a group.                               *)
(***************************************************************************)
EXTENDS Integers, Sequences, FiniteSets, Bags, TLC

(* ------------------------------ bounds --------------------------------- *)
MaxItems == 3
NumUsers == 2
MaxRatings == 2
MaxNumPredictions == 3
MaxK == 3
MaxKUsers == 2

VectorSet == {<<0, 0>>, <<1, 0>>, <<0, 1>>, <<-1, 0>>}
RatingValues == {1, 5}
\* A second pair of sets, of ratings and vectors that are further apart.
VectorSet64 == {<<2, 0>>, <<0, 1>>, <<0, -1>>}
RatingValues64 == {1, 6}
Runs == {1, 2}

Users == 1..NumUsers
Items == 1..MaxItems

(* ------------------------------ helpers -------------------------------- *)
Min(a, b) == IF a <= b THEN a ELSE b
Max(a, b) == IF a >= b THEN a ELSE b
Abs(a) == IF a >= 0 THEN a ELSE -a

SetMax(S) == CHOOSE x \in S : \A y \in S : y <= x
SetMin(S) == CHOOSE x \in S : \A y \in S : x <= y

Range(s) == {s[i] : i \in DOMAIN s}

\* An RDD built from a list of rows.
SeqToBag(s) == [e \in Range(s) |-> Cardinality({i \in DOMAIN s : s[i] = e})]

(* ------------------------------ vectors -------------------------------- *)
ZeroVec(n) == [d \in 1..n |-> 0]
VecAdd(a, b) == [d \in DOMAIN a |-> a[d] + b[d]]
VecScale(c, a) == [d \in DOMAIN a |-> c * a[d]]

RECURSIVE DotUpTo(_, _, _)
DotUpTo(a, b, n) == IF n = 0 THEN 0 ELSE DotUpTo(a, b, n - 1) + a[n] * b[n]
\* np.dot
Dot(a, b) == DotUpTo(a, b, Len(a))

\* all(v == 0 for v in list(vector))
AllZero(a) == \A d \in DOMAIN a : a[d] = 0

(* ------------------------- cosine similarity --------------------------- *)
RECURSIVE IsqrtIn(_, _, _)
\* The largest r in lo..hi with r * r <= n (lo * lo <= n is given).
IsqrtIn(n, lo, hi) ==
    IF lo = hi THEN lo
    ELSE LET mid == (lo + hi + 1) \div 2
         IN  IF mid * mid <= n THEN IsqrtIn(n, mid, hi) ELSE IsqrtIn(n, lo, mid - 1)

\* Cosine with the score cut to three decimals instead of rounded.
CosineTruncated(u, v) ==
    LET d == Dot(u, v)
        m == Dot(u, u) * Dot(v, v)
        x == 1000 * (d * d)
        t == 1000 * (x \div m) + (1000 * (x % m)) \div m
        mag == IsqrtIn(t, 0, 1000)
    IN  IF d >= 0 THEN mag ELSE -mag

\* round(np.dot(u, v) / (norm(v) * norm(u)), 3), in thousandths, for non-zero
\* u and v.  With d = u.v and m = |u|^2 |v|^2 the magnitude is the integer s
\* nearest to 1000 |d| / sqrt(m): the largest s with (2s - 1)^2 <= 4*10^6 d^2 / m,
\* stepped back to the even neighbour when 1000 |d| / sqrt(m) is exactly s - 1/2.
\* t is floor(4*10^6 d^2 / m), taken in two steps of 2000 to stay in 32 bits.
Cosine(u, v) ==
    LET d  == Dot(u, v)
        m  == Dot(u, u) * Dot(v, v)
        x  == 2000 * (d * d)
        t  == 2000 * (x \div m) + (2000 * (x % m)) \div m
        ex == (2000 * (x % m)) % m = 0
        s  == (IsqrtIn(t, 0, 2000) + 1) \div 2
        tie == ex /\ (2 * s - 1) * (2 * s - 1) = t
        mag == IF tie /\ s % 2 = 1 THEN s - 1 ELSE s
    IN  IF d >= 0 THEN mag ELSE -mag

(* ------------------------------- state --------------------------------- *)
VARIABLES
    user_info,                  \* bag of <<user, item, rating>>
    content_array,              \* bag of <<item, vector>>, one row per item
    num_predictions,
    k,                          \* the local k: the argument, then a key of counts
    pc,                         \* the statement of predict() to run next, then
                                \* "returned" (the RDD of line 77 not yet
                                \* evaluated) and "done"
    cluster_model,              \* the trained model: vector -> cluster id
    clustered_content,          \* bag of <<cluster, <<item, vector>>>>
    fractions,                  \* cluster -> share of the catalog, in hundredths
    user_prefs,                 \* bag of <<user, profile vector>>
    max_rating,
    min_rating,
    predictions_with_clusters,  \* bag of <<user, cluster, item, score>>
    clustered_predictions,      \* per run: bag of <<user, item, score>>
    norm_predictions,           \* per run: bag of <<user, item, rescaled score>>
    err                         \* per run: the exception raised, or "none"

vars == <<user_info, content_array, num_predictions, k, pc, cluster_model,
          clustered_content, fractions, user_prefs, max_rating, min_rating,
          predictions_with_clusters, clustered_predictions, norm_predictions, err>>

inputs == <<user_info, content_array, num_predictions, k>>

(* ------------------------------ inputs --------------------------------- *)
\* The ratings: bags of 1..MaxRatings rows <<user, item, rating>>.
RatingBagsOf(users, values) ==
    {SeqToBag(s) : s \in UNION {[1..n -> users \X Items \X values] : n \in 1..MaxRatings}}

\* Catalogs of 1..MaxItems items, item ids 1..n, one vector per item id.  A
\* rating of an item id above n is a rating of an item without content vector.
CatalogsOf(vectors) ==
    UNION {{SetToBag({<<i, f[i]>> : i \in 1..n}) : f \in [1..n -> vectors]} :
           n \in 1..MaxItems}

NoRun == [r \in Runs |-> EmptyBag]

\* The state on entry to predict(), nothing computed yet.
Entry ==
    /\ pc = "train"
    /\ cluster_model = << >>
    /\ clustered_content = EmptyBag
    /\ fractions = << >>
    /\ user_prefs = EmptyBag
    /\ max_rating = 0
    /\ min_rating = 0
    /\ predictions_with_clusters = EmptyBag
    /\ clustered_predictions = NoRun
    /\ norm_predictions = NoRun
    /\ err = [r \in Runs |-> "none"]

\* One user with 1..MaxRatings ratings.
Init ==
    /\ user_info \in RatingBagsOf({1}, RatingValues)
    /\ content_array \in CatalogsOf(VectorSet)
    /\ num_predictions \in 1..MaxNumPredictions
    /\ k \in 1..MaxK
    /\ Entry

(* --------------------------- RDD operations ---------------------------- *)
\* rdd.values() / the set of keys of a pair RDD
Values(B) == BagOfAll(LAMBDA row : row[2], B)

\* rdd.filter(P)
Filter(B, P(_)) ==
    LET S == {e \in BagToSet(B) : P(e)} IN [e \in S |-> B[e]]

\* Join that pairs the rows whatever their keys.
JoinUnkeyed(A, B) ==
    BagOfAll(LAMBDA p : <<p[1][1], <<p[1][2], p[2][2]>>>>,
             [p \in BagToSet(A) \X BagToSet(B) |-> A[p[1]] * B[p[2]]])

\* a.join(b) of two pair RDDs: a row <<key, <<va, vb>>>> for every pair of rows
\* with the same key.
Join(A, B) ==
    LET S == {<<a[1], <<a[2], b[2]>>>> :
                 <<a, b>> \in {p \in BagToSet(A) \X BagToSet(B) : p[1][1] = p[2][1]}}
    IN  [x \in S |-> A[<<x[1], x[2][1]>>] * B[<<x[1], x[2][2]>>]]

\* a.cartesian(b)
Cartesian(A, B) ==
    [p \in BagToSet(A) \X BagToSet(B) |-> A[p[1]] * B[p[2]]]

\* rdd.countByKey()
CountByKey(B) ==
    LET keys == {row[1] : row \in BagToSet(B)}
    IN  [key \in keys |->
            BagCardinality(Filter(B, LAMBDA row : row[1] = key))]

RECURSIVE SumOver(_, _)
\* sum of f[x] over x in S
SumOver(f, S) ==
    IF S = {} THEN 0
    ELSE LET x == CHOOSE y \in S : TRUE IN f[x] + SumOver(f, S \ {x})

(* ------------------------ recommender_helpers --------------------------- *)
RECURSIVE SumRows(_, _, _)
SumRows(rows, S, acc) ==
    IF S = {} THEN acc
    ELSE LET row == CHOOSE y \in S : TRUE
             \* row = <<item, <<vector, <<user, rating>>>>>>, rows[row] times
             term == VecScale(rows[row] * row[2][2][2], row[2][1])
         IN  SumRows(rows, S \ {row}, VecAdd(acc, term))

\* rechelp.sum_components: the sum of rating * item vector over the rows of one
\* user's group.
sum_components(rows) ==
    LET any == CHOOSE y \in BagToSet(rows) : TRUE
    IN  SumRows(rows, BagToSet(rows), ZeroVec(Len(any[2][1])))

(* ------------------ binary64 arithmetic (IEEE 754) --------------------- *)
\* The quotient of line 39 and the scores and the rescaling of lines 69-75 are
\* Python floats and numpy float64s.  A natural number of any size is a sequence of limbs below
\* LimbBase, least significant first, without leading zero limbs; a double is
\* [sign, m, e] of value sign * m * 2^e with 2^52 <= m < 2^53, zero being
\* m = <<>>; 0.0 and -0.0, which Python holds equal, are the one zero FZero.
LimbBase == 2 ^ 15

RECURSIVE BTrim(_)
BTrim(a) ==
    IF a = << >> THEN << >>
    ELSE IF a[Len(a)] = 0 THEN BTrim(SubSeq(a, 1, Len(a) - 1)) ELSE a

RECURSIVE BFromInt(_)
BFromInt(n) == IF n = 0 THEN << >> ELSE <<n % LimbBase>> \o BFromInt(n \div LimbBase)

Limb(a, i) == IF i <= Len(a) THEN a[i] ELSE 0

RECURSIVE BCmpAt(_, _, _)
BCmpAt(a, b, i) ==
    IF i = 0 THEN 0
    ELSE IF a[i] < b[i] THEN -1
    ELSE IF a[i] > b[i] THEN 1
    ELSE BCmpAt(a, b, i - 1)

\* -1, 0 or 1 as a < b, a = b or a > b
BCmp(a, b) ==
    IF Len(a) < Len(b) THEN -1
    ELSE IF Len(a) > Len(b) THEN 1
    ELSE BCmpAt(a, b, Len(a))

RECURSIVE BAddAt(_, _, _, _)
BAddAt(a, b, i, carry) ==
    IF i > Len(a) /\ i > Len(b)
    THEN IF carry = 0 THEN << >> ELSE <<carry>>
    ELSE LET t == Limb(a, i) + Limb(b, i) + carry
         IN  <<t % LimbBase>> \o BAddAt(a, b, i + 1, t \div LimbBase)

BAdd(a, b) == BAddAt(a, b, 1, 0)

RECURSIVE BSubAt(_, _, _, _)
BSubAt(a, b, i, borrow) ==
    IF i > Len(a) THEN << >>
    ELSE LET t == a[i] - Limb(b, i) - borrow
         IN  IF t < 0 THEN <<t + LimbBase>> \o BSubAt(a, b, i + 1, 1)
             ELSE <<t>> \o BSubAt(a, b, i + 1, 0)

\* a - b for a >= b
BSub(a, b) == BTrim(BSubAt(a, b, 1, 0))

RECURSIVE BMulSmallAt(_, _, _, _)
BMulSmallAt(a, f, i, carry) ==
    IF i > Len(a) THEN IF carry = 0 THEN << >> ELSE <<carry>>
    ELSE LET t == a[i] * f + carry
         IN  <<t % LimbBase>> \o BMulSmallAt(a, f, i + 1, t \div LimbBase)

\* a * f for 0 <= f < LimbBase
BMulSmall(a, f) == IF f = 0 THEN << >> ELSE BMulSmallAt(a, f, 1, 0)

BShiftLimbs(a, n) == IF a = << >> THEN << >> ELSE [i \in 1..n |-> 0] \o a

RECURSIVE BMulAt(_, _, _)
BMulAt(a, b, i) ==
    IF i > Len(b) THEN << >>
    ELSE BAdd(BShiftLimbs(BMulSmall(a, b[i]), i - 1), BMulAt(a, b, i + 1))

BMul(a, b) == BMulAt(a, b, 1)

\* a * 2^n
BShl(a, n) == BShiftLimbs(BMulSmall(a, 2 ^ (n % 15)), n \div 15)

RECURSIVE BitLen(_)
BitLen(n) == IF n = 0 THEN 0 ELSE 1 + BitLen(n \div 2)

BBitLen(a) == IF a = << >> THEN 0 ELSE 15 * (Len(a) - 1) + BitLen(a[Len(a)])

\* bit i of a, bit 1 the least significant
BBit(a, i) == (Limb(a, (i - 1) \div 15 + 1) \div (2 ^ ((i - 1) % 15))) % 2

RECURSIVE DigitIn(_, _, _, _)
\* The largest g in lo..hi with d * g <= r (d * lo <= r is given).
DigitIn(r, d, lo, hi) ==
    IF lo = hi THEN lo
    ELSE LET mid == (lo + hi + 1) \div 2
         IN  IF BCmp(BMulSmall(d, mid), r) <= 0
             THEN DigitIn(r, d, mid, hi)
             ELSE DigitIn(r, d, lo, mid - 1)

RECURSIVE BDivStep(_, _, _, _, _)
\* Long division, one limb of the quotient a step, from limb i of n down.
BDivStep(n, d, i, q, r) ==
    IF i = 0 THEN <<BTrim(q), r>>
    ELSE LET r2 == BTrim(<<n[i]>> \o r)
             g  == DigitIn(r2, d, 0, LimbBase - 1)
         IN  BDivStep(n, d, i - 1, <<g>> \o q, BSub(r2, BMulSmall(d, g)))

RECURSIVE BDivSmallAt(_, _, _, _)
BDivSmallAt(n, f, i, r) ==
    IF i = 0 THEN <<<< >>, r>>
    ELSE LET t    == r * LimbBase + n[i]
             rest == BDivSmallAt(n, f, i - 1, t % f)
         IN  <<rest[1] \o <<t \div f>>, rest[2]>>

\* <<floor(n / f), n mod f>> for 0 < f < LimbBase, the remainder an integer
BDivSmall(n, f) ==
    LET qr == BDivSmallAt(n, f, Len(n), 0) IN <<BTrim(qr[1]), qr[2]>>

\* <<floor(n / d), n mod d>>, d # 0
BDivMod(n, d) ==
    IF d = <<1>> THEN <<n, << >>>>
    ELSE IF Len(d) = 1 THEN LET qr == BDivSmall(n, d[1]) IN <<qr[1], BFromInt(qr[2])>>
    ELSE BDivStep(n, d, Len(n), << >>, << >>)

Two52 == BShl(<<1>>, 52)
Two53 == BShl(<<1>>, 53)

FZero == [sign |-> 1, m |-> << >>, e |-> 0]

\* The double of sign * m * 2^e for a mantissa m rounded to 53 bits, which is
\* 2^53 when the rounding carried out of the 53 bits.
Packed(sign, m, e) ==
    IF m = Two53 THEN [sign |-> sign, m |-> Two52, e |-> e + 1]
    ELSE [sign |-> sign, m |-> m, e |-> e]

\* cut = <<the first 53 bits of the quotient, the bits cut off>>, half the
\* weight of the first bit cut off, sticky whether the division left a
\* remainder: round to nearest, a tie going to the even mantissa.
Rounded(sign, cut, half, sticky, e) ==
    Packed(sign,
           IF cut[2] > half \/ (cut[2] = half /\ (sticky \/ BBit(cut[1], 1) = 1))
           THEN BAdd(cut[1], <<1>>) ELSE cut[1],
           e)

\* q a quotient of 53 + x bits, x being 1 or 2.
CutTo53(sign, q, x, sticky, e) ==
    Rounded(sign, BDivSmall(q, 2 ^ x), 2 ^ (x - 1), sticky, e + x)

Divided(sign, qr, e) == CutTo53(sign, qr[1], BBitLen(qr[1]) - 53, qr[2] # << >>, e)

\* num / den scaled by 2^s so that the quotient has 54 or 55 bits.
Scaled(sign, num, den, s, e) ==
    Divided(sign,
            BDivMod(IF s >= 0 THEN BShl(num, s) ELSE num,
                    IF s >= 0 THEN den ELSE BShl(den, -s)),
            e - s)

\* The double nearest to sign * (num / den) * 2^e, a tie going to the even
\* mantissa: the quotient is taken with one or two bits beyond the 53 of the
\* mantissa, and the remainder tells whether anything lies beyond those.
RoundToDouble(sign, num, den, e) ==
    IF num = << >> THEN FZero
    ELSE Scaled(sign, num, den, 54 - BBitLen(num) + BBitLen(den), e)

Sign(n) == IF n < 0 THEN -1 ELSE 1

\* float(n) of a Python int
FFromInt(n) == RoundToDouble(Sign(n), BFromInt(Abs(n)), <<1>>, 0)

\* The float64 that round(x, 3) returns for the score of n thousandths: the
\* double nearest to n / 1000.
FFromThousandths(n) == RoundToDouble(Sign(n), BFromInt(Abs(n)), BFromInt(1000), 0)

FNeg(a) == IF a.m = << >> THEN a ELSE [a EXCEPT !.sign = -a.sign]

\* The exact sum of two doubles as <<sign, magnitude, exponent>>.
ExactSum(a, b) ==
    LET e0 == Min(a.e, b.e)
        x  == BShl(a.m, a.e - e0)
        y  == BShl(b.m, b.e - e0)
        c  == BCmp(x, y)
    IN  IF a.sign = b.sign THEN <<a.sign, BAdd(x, y), e0>>
        ELSE IF c = 0 THEN <<1, << >>, 0>>
        ELSE IF c > 0 THEN <<a.sign, BSub(x, y), e0>>
        ELSE <<b.sign, BSub(y, x), e0>>

FAdd(a, b) ==
    IF a.m = << >> THEN b
    ELSE IF b.m = << >> THEN a
    ELSE LET t == ExactSum(a, b) IN RoundToDouble(t[1], t[2], <<1>>, t[3])

FSub(a, b) == FAdd(a, FNeg(b))

FMul(a, b) ==
    IF a.m = << >> \/ b.m = << >> THEN FZero
    ELSE RoundToDouble(a.sign * b.sign, BMul(a.m, b.m), <<1>>, a.e + b.e)

\* a / b for b # 0
FDiv(a, b) ==
    IF a.m = << >> THEN FZero
    ELSE RoundToDouble(a.sign * b.sign, a.m, b.m, a.e - b.e)

\* a <= b
FLeq(a, b) ==
    IF a.m = << >> THEN b.m = << >> \/ b.sign = 1
    ELSE IF b.m = << >> THEN a.sign = -1
    ELSE LET t == ExactSum(b, FNeg(a)) IN t[2] = << >> \/ t[1] = 1

RECURSIVE BToInt(_)
\* The integer of a natural number that fits one.
BToInt(a) == IF a = << >> THEN 0 ELSE a[1] + LimbBase * BToInt(Tail(a))

\* qr = <<floor(n / d), n mod d>>: the integer nearest to n / d, a tie going
\* to the even one.
HalfEvenOf(qr, d) ==
    IF BCmp(BShl(qr[2], 1), d) > 0
       \/ (BCmp(BShl(qr[2], 1), d) = 0 /\ BToInt(qr[1]) % 2 = 1)
    THEN BToInt(qr[1]) + 1 ELSE BToInt(qr[1])

\* round(x * f) of a float x for an integer 0 < f < LimbBase: the exact value of
\* the double times f, rounded to an integer, a tie (a value that lies exactly
\* half way) going to the even one.
RoundTimes(x, f) ==
    IF x.m = << >> THEN 0
    ELSE x.sign * HalfEvenOf(BDivMod(IF x.e >= 0 THEN BShl(BMulSmall(x.m, f), x.e)
                                     ELSE BMulSmall(x.m, f),
                                     IF x.e >= 0 THEN <<1>> ELSE BShl(<<1>>, -x.e)),
                             IF x.e >= 0 THEN <<1>> ELSE BShl(<<1>>, -x.e))

\* round(x, 2) of a float, in hundredths
RoundTo2(x) == RoundTimes(x, 100)

\* round(x) of a float
RoundToInt(x) == RoundTimes(x, 1)

\* line 39: round(float(v) / total, 2), in hundredths
RoundedQuotient(v, total) == RoundTo2(FDiv(FFromInt(v), FFromInt(total)))

\* The values of RoundedQuotient for the catalogs of up to MaxItems items,
\* computed once.
QuotientTable ==
    [x \in (1..MaxItems) \X (1..MaxItems) |-> RoundedQuotient(x[1], x[2])] @@ << >>

\* table[key] where the table has the key, F(key) elsewhere
Lookup(table, key, F(_)) == IF key \in DOMAIN table THEN table[key] ELSE F(key)

\* round(float(v) / total, 2), in hundredths
RoundedFraction(v, total) ==
    Lookup(QuotientTable, <<v, total>>, LAMBDA x : RoundedQuotient(x[1], x[2]))

\* The float that round(x, 2) returns for h hundredths: the double nearest to
\* h / 100.
FFromHundredths(h) == RoundToDouble(Sign(h), BFromInt(Abs(h)), BFromInt(100), 0)

\* round(fraction * N) for the fraction of h hundredths, a float product
RoundedProductOf(h, N) == RoundToInt(FMul(FFromHundredths(h), FFromInt(N)))

\* The values of RoundedProductOf for the fractions of QuotientTable and up to
\* MaxNumPredictions predictions, computed once.
ProductTable ==
    [x \in {QuotientTable[q] : q \in DOMAIN QuotientTable} \X (1..MaxNumPredictions)
        |-> RoundedProductOf(x[1], x[2])] @@ << >>

\* round(fraction * N) for the fraction of h hundredths
RoundedProduct(h, N) ==
    Lookup(ProductTable, <<h, N>>, LAMBDA x : RoundedProductOf(x[1], x[2]))

\* The number of rows sort_and_cut_by_cluster keeps of a group of the cluster:
\* round(fractions[cluster] * N), never below 0.
ToTake(cluster, N, fr) == Max(RoundedProduct(fr[cluster], N), 0)

\* rechelp.sort_and_cut_by_cluster on one group <<(user, cluster), rows>>, the
\* rows being <<user, cluster, item, score>>: the rows sorted by score,
\* descending, cut to the first ToTake and returned as <<user, score, item>>.
\* The order of rows of equal score is the order in which the group happens to
\* hold them, so the result is any choice of ToTake rows that leaves out no row
\* of a higher score than one it keeps: the set of all such results.
sort_and_cut_by_cluster(row, N, fr) ==
    LET group == row[2]
        take  == Min(ToTake(row[1][2], N, fr), BagCardinality(group))
        kept  == {T \in SubBag(group) :
                     /\ BagCardinality(T) = take
                     /\ \A x \in BagToSet(T) : \A y \in BagToSet(group (-) T) :
                            x[4] >= y[4]}
    IN  {BagOfAll(LAMBDA x : <<x[1], x[4], x[3]>>, T) : T \in kept}

\* The lambda of lines 74-75 on a row of score pred, with the scores in
\* thousandths: diff_pred = float(max_pred - min_pred) of line 72, and
\* (pred - min_pred) * float(diff_ratings / diff_pred) + min_rating, in which
\* the division of a Python number by the float 0.0 raises ZeroDivisionError.
\* The ratings are Python numbers here; OnZeroDivisor has the other case.
RescaledRow(pred, min_pred, max_pred, lo, hi) ==
    LET mn        == FFromThousandths(min_pred)
        diff_pred == FSub(FFromThousandths(max_pred), mn)
    IN  IF diff_pred = FZero THEN [raise |-> "ZeroDivisionError"]
        ELSE FAdd(FMul(FSub(FFromThousandths(pred), mn),
                       FDiv(FFromInt(hi - lo), diff_pred)),
                  FFromInt(lo))

RECURSIVE ProfileSums(_, _, _)
\* The sums of 1..n terms rating * vector.
ProfileSums(vectors, values, n) ==
    LET terms == {VecScale(r, v) : r \in values, v \in vectors}
    IN  IF n <= 1 THEN terms
        ELSE LET less == ProfileSums(vectors, values, n - 1)
             IN  less \cup {VecAdd(a, b) : a \in less, b \in terms}

RECURSIVE UnionsOf(_, _)
\* The unions of 1..n of the sets.
UnionsOf(sets, n) ==
    IF n <= 1 THEN sets
    ELSE LET less == UnionsOf(sets, n - 1)
         IN  less \cup {a \cup b : a \in less, b \in sets}

\* The sets of scores that a number of users, each with a profile of up to
\* that many ratings, can have against the vectors.
ScoreSets(vectors, values, users, ratings) ==
    LET profiles == {q \in ProfileSums(vectors, values, ratings) : ~AllZero(q)}
        items    == {w \in vectors : ~AllZero(w)}
    IN  UnionsOf({{Cosine(p, v) : v \in items} : p \in profiles}, users)

\* The arguments the lambda of lines 74-75 can get from scores of one of the
\* sets and ratings of the values.
RowInputs(sets, values) ==
    UNION {{t \in S \X S \X S \X values \X values :
               t[2] <= t[1] /\ t[1] <= t[3] /\ t[4] <= t[5]} : S \in sets}

\* The values of RescaledRow for the inputs of the runs, computed once.
RowTable ==
    [t \in RowInputs(ScoreSets(VectorSet, RatingValues, 1, MaxRatings), RatingValues)
           \cup RowInputs(ScoreSets(VectorSet, RatingValues, NumUsers, 1), RatingValues)
           \cup RowInputs(ScoreSets(VectorSet64, RatingValues64, 1, MaxRatings),
                          RatingValues64)
        |-> RescaledRow(t[1], t[2], t[3], t[4], t[5])] @@ << >>

\* The ratings are Python numbers or numpy numbers; the source fixes neither.
NumberTypes == {"python", "numpy"}

NaN == [nan |-> TRUE]

\* diff_ratings / diff_pred with diff_pred = 0.0 raises ZeroDivisionError when
\* diff_ratings is a Python number; a numpy number divided by 0.0 is inf or
\* nan, and (pred - min_pred) = 0.0 times either, plus min_rating, is nan.
OnZeroDivisor(value, numbers) ==
    IF DOMAIN value = {"raise"} /\ numbers = "numpy" THEN NaN ELSE value

\* The lambda of lines 74-75 on a row.
Rescaled(pred, min_pred, max_pred, lo, hi, numbers) ==
    OnZeroDivisor(Lookup(RowTable, <<pred, min_pred, max_pred, lo, hi>>,
                         LAMBDA t : RescaledRow(t[1], t[2], t[3], t[4], t[5])),
                  numbers)

(* ------------------------------ predict -------------------------------- *)
\* lines 27-32: KMeans.train and the cluster of every item.  The engine is
\* external: any assignment of the catalog's vectors to the cluster ids
\* 0..k-1; equal vectors get the same cluster.
Train ==
    /\ pc = "train"
    /\ \E model \in [BagToSet(Values(content_array)) -> 0..(k - 1)] :
          /\ cluster_model' = model
          /\ clustered_content' =
                 BagOfAll(LAMBDA iv : <<model[iv[2]], <<iv[1], iv[2]>>>>, content_array)
    /\ pc' = "fractions"
    /\ UNCHANGED <<inputs, fractions, user_prefs, max_rating, min_rating,
                   predictions_with_clusters, clustered_predictions,
                   norm_predictions, err>>

\* Fractions without the division by the total.
FractionsUnnormalised(clustered) ==
    LET counts == CountByKey(clustered)
    IN  [c \in DOMAIN counts |-> 100 * counts[c]]

\* Fractions counted after the zero content vectors are filtered out.
FractionsAfterFilter(clustered) ==
    LET kept   == Filter(clustered, LAMBDA civ : ~AllZero(civ[2][2]))
        counts == CountByKey(kept)
        total  == SumOver(counts, DOMAIN counts)
    IN  [c \in DOMAIN counts |-> RoundedFraction(counts[c], total)]

\* lines 35-39: fractions[c] = round(float(count[c]) / total, 2)
Fractions(clustered) ==
    LET counts == CountByKey(clustered)
        total  == SumOver(counts, DOMAIN counts)
    IN  [c \in DOMAIN counts |-> RoundedFraction(counts[c], total)]

\* lines 34-39.  The loop of line 38 binds its keys to the local name k, which
\* is left holding the last key of counts; a dict of counts gathered from an
\* RDD has its keys in no order the function controls, so any key may be last.
CalcFractions ==
    /\ pc = "fractions"
    /\ fractions' = Fractions(clustered_content)
    /\ k' \in DOMAIN CountByKey(clustered_content)
    /\ pc' = "profiles"
    /\ UNCHANGED <<user_info, content_array, num_predictions, cluster_model,
                   clustered_content, user_prefs, max_rating, min_rating,
                   predictions_with_clusters, clustered_predictions,
                   norm_predictions, err>>

\* UserPrefs without the groupBy: one profile row per joined rating.
UserPrefsUngrouped(info, content) ==
    LET user_keys == BagOfAll(LAMBDA uir : <<uir[2], <<uir[1], uir[3]>>>>, info)
    IN  BagOfAll(LAMBDA row : <<row[2][2][1], VecScale(row[2][2][2], row[2][1])>>,
                 Join(content, user_keys))

\* lines 42-46: the ratings joined to the content vectors by item, grouped by
\* user, one profile per group.
UserPrefs(info, content) ==
    LET user_keys == BagOfAll(LAMBDA uir : <<uir[2], <<uir[1], uir[3]>>>>, info)
        joined    == Join(content, user_keys)
        users     == {row[2][2][1] : row \in BagToSet(joined)}
        group(u)  == Filter(joined, LAMBDA row : row[2][2][1] = u)
    IN  SetToBag({<<u, sum_components(group(u))>> : u \in users})

\* MakeUserProfiles without the two filters of lines 49-50.
MakeUserProfilesUnfiltered ==
    /\ pc = "profiles"
    /\ user_prefs' = UserPrefs(user_info, content_array)
    /\ pc' = "score"
    /\ UNCHANGED <<inputs, cluster_model, clustered_content, fractions, max_rating,
                   min_rating, predictions_with_clusters, clustered_predictions,
                   norm_predictions, err>>

\* lines 41-50: the user profiles, then the zero profiles and the zero
\* content vectors filtered out.
MakeUserProfiles ==
    /\ pc = "profiles"
    /\ user_prefs' = Filter(UserPrefs(user_info, content_array),
                            LAMBDA uv : ~AllZero(uv[2]))
    /\ clustered_content' = Filter(clustered_content, LAMBDA civ : ~AllZero(civ[2][2]))
    /\ pc' = "score"
    /\ UNCHANGED <<inputs, cluster_model, fractions, max_rating, min_rating,
                   predictions_with_clusters, clustered_predictions,
                   norm_predictions, err>>

\* lines 56-62: every content row paired with every profile and scored.
Scored(clustered, prefs) ==
    BagOfAll(LAMBDA c : <<c[2][1], c[1][1], c[1][2][1], Cosine(c[2][2], c[1][2][2])>>,
             Cartesian(clustered, prefs))

\* lines 52-62
MakePredictions ==
    /\ pc = "score"
    /\ max_rating' = SetMax({uir[3] : uir \in BagToSet(user_info)})
    /\ min_rating' = SetMin({uir[3] : uir \in BagToSet(user_info)})
    /\ predictions_with_clusters' = Scored(clustered_content, user_prefs)
    /\ pc' = "cut"
    /\ UNCHANGED <<inputs, cluster_model, clustered_content, fractions, user_prefs,
                   clustered_predictions, norm_predictions, err>>

RECURSIVE FlatMapCut(_, _, _, _)
\* The results of flat-mapping sort_and_cut_by_cluster over the groups of keys.
FlatMapCut(scored, keys, N, fr) ==
    IF keys = {} THEN {EmptyBag}
    ELSE LET key   == CHOOSE y \in keys : TRUE
             group == Filter(scored, LAMBDA x : <<x[1], x[2]>> = key)
         IN  {a (+) b : a \in sort_and_cut_by_cluster(<<key, group>>, N, fr),
                        b \in FlatMapCut(scored, keys \ {key}, N, fr)}

RECURSIVE FlatMapTopN(_, _, _)
FlatMapTopN(scored, users, N) ==
    IF users = {} THEN {EmptyBag}
    ELSE LET u     == CHOOSE y \in users : TRUE
             group == Filter(scored, LAMBDA x : x[1] = u)
             take  == Min(N, BagCardinality(group))
             kept  == {T \in SubBag(group) :
                          /\ BagCardinality(T) = take
                          /\ \A x \in BagToSet(T) : \A y \in BagToSet(group (-) T) :
                                 x[4] >= y[4]}
         IN  {BagOfAll(LAMBDA x : <<x[1], x[3], x[4]>>, a) (+) b :
                 a \in kept, b \in FlatMapTopN(scored, users \ {u}, N)}

\* ClusteredPredictions grouped by user alone: the top N of each user, the
\* clusters ignored.
ClusteredPredictionsTopN(scored, N, fr) ==
    FlatMapTopN(scored, {x[1] : x \in BagToSet(scored)}, N)

\* lines 64-67: grouped by (user, cluster), cut, and mapped to
\* <<user, item, score>>: every result the order of the rows allows.
ClusteredPredictions(scored, N, fr) ==
    LET keys == {<<x[1], x[2]>> : x \in BagToSet(scored)}
    IN  {BagOfAll(LAMBDA uri : <<uri[1], uri[3], uri[2]>>, B) :
            B \in FlatMapCut(scored, keys, N, fr)}

SortAndCut ==
    /\ pc = "cut"
    /\ clustered_predictions' \in
           [Runs -> ClusteredPredictions(predictions_with_clusters, num_predictions,
                                         fractions)]
    /\ pc' = "rescale"
    /\ UNCHANGED <<inputs, cluster_model, clustered_content, fractions, user_prefs,
                   max_rating, min_rating, predictions_with_clusters,
                   norm_predictions, err>>

\* The evaluation of the RDD that line 77 returns: its rows, or the
\* exception that the lambda of lines 74-75 raised on one of them.
Evaluated(rows) ==
    IF \E row \in BagToSet(rows) : DOMAIN row[3] = {"raise"}
    THEN [error |-> "ZeroDivisionError", rows |-> EmptyBag]
    ELSE [error |-> "none", rows |-> rows]

\* The RDD of lines 74-75 over the kept rows, not empty, evaluated: min_pred
\* and max_pred are those of lines 69-70.
Outcome(kept, lo, hi, numbers) ==
    Evaluated(BagOfAll(LAMBDA uip :
                  <<uip[1], uip[2],
                    Rescaled(uip[3], SetMin({x[3] : x \in BagToSet(kept)}),
                             SetMax({x[3] : x \in BagToSet(kept)}), lo, hi, numbers)>>,
                  kept))

\* lines 69-77.  max() of an empty RDD raises ValueError at line 69 and the
\* call ends there.  Otherwise max_pred, min_pred and diff_pred are computed,
\* nothing is checked, and line 77 returns the RDD of the lazy map of lines
\* 74-75: predict returns without an error whatever diff_pred is.
Rescale ==
    /\ pc = "rescale"
    /\ err' = [r \in Runs |->
                  IF clustered_predictions[r] = EmptyBag THEN "ValueError" ELSE "none"]
    /\ pc' = IF \A r \in Runs : clustered_predictions[r] = EmptyBag
             THEN "done" ELSE "returned"
    /\ UNCHANGED <<inputs, cluster_model, clustered_content, fractions, user_prefs,
                   max_rating, min_rating, predictions_with_clusters,
                   clustered_predictions, norm_predictions>>

\* The caller evaluates the RDD that predict returned (collect, count, save):
\* only now does the lambda of lines 74-75 run.
Evaluate ==
    /\ pc = "returned"
    /\ \E numbers \in NumberTypes :
          /\ norm_predictions' =
                 [r \in Runs |->
                     IF err[r] # "none" THEN EmptyBag
                     ELSE Outcome(clustered_predictions[r], min_rating, max_rating,
                                  numbers).rows]
          /\ err' =
                 [r \in Runs |->
                     IF err[r] # "none" THEN err[r]
                     ELSE Outcome(clustered_predictions[r], min_rating, max_rating,
                                  numbers).error]
    /\ pc' = "done"
    /\ UNCHANGED <<inputs, cluster_model, clustered_content, fractions, user_prefs,
                   max_rating, min_rating, predictions_with_clusters,
                   clustered_predictions>>

Next ==
    \/ Train
    \/ CalcFractions
    \/ MakeUserProfiles
    \/ MakePredictions
    \/ SortAndCut
    \/ Rescale
    \/ Evaluate

Spec == Init /\ [][Next]_vars

\* Every user rates one item; up to MaxKUsers clusters.
InitUsers ==
    /\ user_info \in {SetToBag({<<u, f[u][1], f[u][2]>> : u \in Users}) :
                         f \in [Users -> Items \X RatingValues]}
    /\ content_array \in CatalogsOf(VectorSet)
    /\ num_predictions \in 1..MaxNumPredictions
    /\ k \in 1..MaxKUsers
    /\ Entry

SpecUsers == InitUsers /\ [][Next]_vars

\* One user, ratings and vectors of the second pair of sets, as many clusters
\* and predictions as the bounds allow.
Init64 ==
    /\ user_info \in RatingBagsOf({1}, RatingValues64)
    /\ content_array \in CatalogsOf(VectorSet64)
    /\ num_predictions = MaxNumPredictions
    /\ k = MaxK
    /\ Entry

Spec64 == Init64 /\ [][Next]_vars

(* ======================= properties of predict ========================= *)
\* The call is over, and what it returned is evaluated.
Done == pc = "done"
\* Run r returned an RDD, and its evaluation gave rows.
Returned(r) == pc = "done" /\ err[r] = "none"
\* predict is over for run r: it raised, or it returned its RDD.
Ended(r) == pc \in {"returned", "done"}

CatalogItems == {iv[1] : iv \in BagToSet(content_array)}
VectorOf(i) == (CHOOSE iv \in BagToSet(content_array) : iv[1] = i)[2]
NonZeroItems == {i \in CatalogItems : ~AllZero(VectorOf(i))}
\* The cluster the trained model gives the item.
ClusterOf(i) == cluster_model[VectorOf(i)]
Clusters == {ClusterOf(i) : i \in CatalogItems}

\* The share of the whole catalog assigned to c, rounded to two decimals (in
\* hundredths), and the quota it gives the cluster.
Share(c) ==
    RoundedFraction(Cardinality({i \in CatalogItems : ClusterOf(i) = c}),
                    Cardinality(CatalogItems))
Quota(c) == Max(RoundedProduct(Share(c), num_predictions), 0)

\* The number of rows of the bag B that satisfy P.
CountRows(B, P(_)) == BagCardinality(Filter(B, P))

\* The predictions of run r for user u, and those among them of cluster c.
PredictionsOf(r, u) == CountRows(norm_predictions[r], LAMBDA p : p[1] = u)
PredictionsIn(r, u, c) ==
    CountRows(norm_predictions[r], LAMBDA p : p[1] = u /\ ClusterOf(p[2]) = c)
OutputUsers(r) == {p[1] : p \in BagToSet(norm_predictions[r])}

\* The scored candidates of user u, and the clusters they lie in.
CandidatesIn(u, c) ==
    CountRows(predictions_with_clusters, LAMBDA x : x[1] = u /\ x[2] = c)
CandidateClusters(u) == {x[2] : x \in {y \in BagToSet(predictions_with_clusters) : y[1] = u}}

RECURSIVE WeightedSum(_, _, _)
WeightedSum(u, S, acc) ==
    IF S = {} THEN acc
    ELSE LET uir == CHOOSE y \in S : TRUE
             add == IF uir[1] = u /\ uir[2] \in CatalogItems
                    THEN VecScale(user_info[uir] * uir[3], VectorOf(uir[2]))
                    ELSE ZeroVec(Len(acc))
         IN  WeightedSum(u, S \ {uir}, VecAdd(acc, add))

\* The sum of rating * item vector over the ratings of u whose item has a
\* content vector.
ExpectedProfile(u) ==
    WeightedSum(u, BagToSet(user_info), ZeroVec(Len(VectorOf(1))))
Contributes(u) == \E uir \in BagToSet(user_info) : uir[1] = u /\ uir[2] \in CatalogItems
ProfilesOf(u) == CountRows(user_prefs, LAMBDA uv : uv[1] = u)

AfterProfiles == pc \in {"score", "cut", "rescale", "returned", "done"}

(* ---------------------------------- C1 --------------------------------- *)
\* The inputs of the end-to-end example and a model that separates its two
\* items; the k of the call is not among them, line 38 having overwritten it.
C1Input ==
    /\ user_info = SetToBag({<<1, 1, 5>>, <<1, 2, 1>>})
    /\ content_array = SetToBag({<<1, <<1, 0>>>>, <<2, <<0, 1>>>>})
    /\ num_predictions = 1
C1Run == C1Input /\ Done /\ cluster_model[<<1, 0>>] # cluster_model[<<0, 1>>]

\* C1 as stated: on the end-to-end example (u1 rates i1 = 5 and i2 = 1, i1 = [1,0]
\* and i2 = [0,1] put in different clusters by a training with k = 2, one
\* prediction asked for) the profile of u1 is [5,0], the raw scores are 1.0 for
\* i1 and 0.0 for i2, and the output is the single prediction (u1, i1, 5.0).
C1_SinglePredictionForI1 ==
    C1Run =>
        /\ user_prefs = SetToBag({<<1, <<5, 0>>>>})
        /\ {<<x[3], x[4]>> : x \in BagToSet(predictions_with_clusters)}
               = {<<1, 1000>>, <<2, 0>>}
        /\ \A r \in Runs :
               err[r] = "none" /\ norm_predictions[r] = SetToBag({<<1, 1, FFromInt(5)>>})

\* C1 amended: on the end-to-end example the profile of u1 is [5,1], the raw
\* scores are 0.981 for i1 and 0.196 for i2, each cluster's quota is
\* round(0.5 * 1) = 0, so no prediction is kept and the run ends in the error
\* of reducing an empty result instead of returning a prediction.
C1_NoPredictionKept ==
    C1Run =>
        /\ user_prefs = SetToBag({<<1, <<5, 1>>>>})
        /\ {<<x[3], x[4]>> : x \in BagToSet(predictions_with_clusters)}
               = {<<1, 981>>, <<2, 196>>}
        /\ \A c \in Clusters : Share(c) = 50 /\ fractions[c] = 50 /\ Quota(c) = 0
        /\ \A r \in Runs :
               /\ clustered_predictions[r] = EmptyBag
               /\ err[r] = "ValueError"
               /\ norm_predictions[r] = EmptyBag

C1_Witness == C1Run /\ BagCardinality(predictions_with_clusters) = 2

(* ---------------------------------- C2 --------------------------------- *)
\* C2 as stated: the output holds at most num_predictions predictions for each
\* user.
C2_AtMostRequested ==
    \A r \in Runs : Returned(r) =>
        \A u \in OutputUsers(r) : PredictionsOf(r, u) <= num_predictions

\* The sum over the clusters of the per-cluster quotas.
QuotaSum == SumOver([c \in Clusters |-> Quota(c)], Clusters)

\* C2 amended: the output holds, for each user, at most as many predictions as
\* the per-cluster quotas round(fraction[c] * num_predictions) sum to; the sum
\* is not capped to num_predictions and the count can exceed num_predictions.
C2_AtMostSumOfQuotas ==
    \A r \in Runs : Returned(r) =>
        \A u \in OutputUsers(r) :
            /\ PredictionsOf(r, u) <= QuotaSum
            /\ PredictionsOf(r, u) =
                   SumOver([c \in Clusters |-> Min(Quota(c), CandidatesIn(u, c))], Clusters)

\* A user who is returned more predictions than were asked for.
C2_Witness ==
    /\ Returned(1)
    /\ \E u \in OutputUsers(1) :
          /\ PredictionsOf(1, u) > num_predictions
          /\ PredictionsOf(1, u) = QuotaSum

(* ---------------------------------- C3 --------------------------------- *)
\* C3 as stated: for a user of the output whose candidates span more than one
\* cluster, the number of the user's predictions in cluster c is
\* round(fraction[c] * num_predictions), never below 0.
C3_ExactQuota ==
    \A r \in Runs : Returned(r) =>
        \A u \in OutputUsers(r) : Cardinality(CandidateClusters(u)) > 1 =>
            \A c \in Clusters : Quota(c) >= 0 /\ PredictionsIn(r, u, c) = Quota(c)

\* C3 amended: for a user of the output whose candidates span more than one
\* cluster, the number of the user's predictions in cluster c is
\* round(fraction[c] * num_predictions), never below 0, or the number of the
\* user's candidates in c when that is smaller.
C3_QuotaOrAllCandidates ==
    \A r \in Runs : Returned(r) =>
        \A u \in OutputUsers(r) : Cardinality(CandidateClusters(u)) > 1 =>
            \A c \in Clusters :
                /\ Quota(c) >= 0
                /\ PredictionsIn(r, u, c) = Min(Quota(c), CandidatesIn(u, c))

C3_Witness ==
    /\ Returned(1)
    /\ \E u \in OutputUsers(1) :
          /\ Cardinality(CandidateClusters(u)) > 1
          /\ \E c \in Clusters :
                /\ CandidatesIn(u, c) > 0
                /\ CandidatesIn(u, c) < Quota(c)
                /\ PredictionsIn(1, u, c) = CandidatesIn(u, c)

(* ---------------------------------- C5 --------------------------------- *)
NonZeroPair(u, i) == ~AllZero(VectorOf(i)) /\ ~AllZero(ExpectedProfile(u))

\* C5: no scored candidate and no prediction involves an item whose content
\* vector is all-zero or a user whose rating-weighted sum of item vectors is
\* all-zero; both are gone from the profiles and the clustered content before
\* the cross product is scored.
C5_NoZeroVectorScored ==
    /\ AfterProfiles =>
          /\ \A uv \in BagToSet(user_prefs) : ~AllZero(uv[2])
          /\ \A civ \in BagToSet(clustered_content) : ~AllZero(civ[2][2])
    /\ \A x \in BagToSet(predictions_with_clusters) : NonZeroPair(x[1], x[3])
    /\ \A r \in Runs :
          /\ \A p \in BagToSet(clustered_predictions[r]) : NonZeroPair(p[1], p[2])
          /\ \A p \in BagToSet(norm_predictions[r]) : NonZeroPair(p[1], p[2])

\* A user whose only rated item has a zero vector, beside a catalog with a zero
\* item and a run that returns predictions.
C5_Witness ==
    /\ Returned(1)
    /\ norm_predictions[1] # EmptyBag
    /\ \E i \in CatalogItems : AllZero(VectorOf(i))
    /\ \E u \in Users :
          /\ BagCardinality(Filter(user_info, LAMBDA uir : uir[1] = u)) = 1
          /\ Contributes(u)
          /\ AllZero(ExpectedProfile(u))
          /\ u \notin OutputUsers(1)

(* ---------------------------------- C6 --------------------------------- *)
SameScore(B) == \A p \in BagToSet(B) : \A q \in BagToSet(B) : p[3] = q[3]

\* C6 as stated: when all predictions kept after the cut have the same raw
\* score (one kept prediction included), predict detects it and ends in a
\* reported error, returning nothing; and no score that a run returns is
\* computed with a zero divisor: each is a float, never a nan or an infinity.
C6_EqualScoresAreAnError ==
    \A r \in Runs :
        /\ (Ended(r) /\ clustered_predictions[r] # EmptyBag
                     /\ SameScore(clustered_predictions[r]))
               => (err[r] # "none" /\ norm_predictions[r] = EmptyBag)
        /\ \A p \in BagToSet(norm_predictions[r]) : DOMAIN p[3] = {"sign", "m", "e"}

(* ---------------------------------- C7 --------------------------------- *)
\* C7: every returned prediction names an item of the content-vector catalog,
\* and no (user, item) pair is returned more than once.
C7_CatalogItemsOnce ==
    \A r \in Runs : Returned(r) =>
        \A p \in BagToSet(norm_predictions[r]) :
            /\ p[2] \in CatalogItems
            /\ CopiesIn(p, norm_predictions[r]) = 1
            /\ \A q \in BagToSet(norm_predictions[r]) :
                   (q[1] = p[1] /\ q[2] = p[2]) => q = p

\* A user with two ratings, one of them of an item outside the catalog, who gets
\* predictions from two clusters.
C7_Witness ==
    /\ Returned(1)
    /\ \E u \in OutputUsers(1) :
          /\ BagCardinality(Filter(user_info, LAMBDA uir : uir[1] = u)) > 1
          /\ \E uir \in BagToSet(user_info) : uir[1] = u /\ uir[2] \notin CatalogItems
          /\ Cardinality({c \in Clusters : PredictionsIn(1, u, c) > 0}) > 1

(* ---------------------------------- C8 --------------------------------- *)
\* C8 as stated: two runs on identical inputs return identical predictions,
\* whatever the order of the rows, ties at the quota boundary included.
C8_IdenticalRuns ==
    Done => (err[1] = err[2] /\ norm_predictions[1] = norm_predictions[2])

\* A candidate left out by run r has the score of one the run kept, in the same
\* (user, cluster) group.
TieAtBoundary(r) ==
    \E x \in BagToSet(predictions_with_clusters) :
        /\ <<x[1], x[3], x[4]>> \notin BagToSet(clustered_predictions[r])
        /\ \E p \in BagToSet(clustered_predictions[r]) :
               p[1] = x[1] /\ ClusterOf(p[2]) = x[2] /\ p[3] = x[4]

OnlyTiesDiffer(A, B) ==
    \A p \in BagToSet(A) \ BagToSet(B) : \E q \in BagToSet(B) \ BagToSet(A) :
        q[1] = p[1] /\ ClusterOf(q[2]) = ClusterOf(p[2]) /\ q[3] = p[3]

\* C8 amended: two runs on identical inputs end the same way and return
\* identical predictions unless candidates of one (user, cluster) group have
\* equal scores at the quota boundary; then the runs may differ, but only in
\* which of the equal-score items of that group is returned.
C8_IdenticalUpToTies ==
    Done =>
        /\ err[1] = err[2]
        /\ ~TieAtBoundary(1) => norm_predictions[1] = norm_predictions[2]
        /\ OnlyTiesDiffer(norm_predictions[1], norm_predictions[2])
        /\ OnlyTiesDiffer(norm_predictions[2], norm_predictions[1])
        /\ BagCardinality(norm_predictions[1]) = BagCardinality(norm_predictions[2])

C8_Witness ==
    /\ Returned(1)
    /\ Returned(2)
    /\ TieAtBoundary(1)
    /\ norm_predictions[1] # norm_predictions[2]

(* ---------------------------------- C9 --------------------------------- *)
RatedNonZero(u) ==
    \E uir \in BagToSet(user_info) : uir[1] = u /\ uir[2] \in NonZeroItems

\* C9 as stated: the profile stage yields exactly one profile for each user who
\* rated at least one item with a non-zero content vector and none for any
\* other user, the profile being the sum of rating * item vector over the
\* user's rated items that have a content vector.
C9_ProfileForEveryRater ==
    AfterProfiles =>
        /\ \A u \in Users : ProfilesOf(u) = IF RatedNonZero(u) THEN 1 ELSE 0
        /\ \A uv \in BagToSet(user_prefs) : uv[2] = ExpectedProfile(uv[1])

\* C9 amended: the profile stage yields exactly one profile for each user whose
\* sum of rating * item vector over the rated items that have a content vector
\* is not all-zero, and none for any other user (none for a user whose
\* contributions cancel); the profile is that sum, and a rating of an item
\* without content vector contributes nothing and does not abort the run: no
\* run has raised before the end of predict, a ValueError is that of an empty
\* cut and a ZeroDivisionError that of equal kept scores.
C9_ProfileForEveryNonZeroSum ==
    AfterProfiles =>
        /\ \A u \in Users :
               ProfilesOf(u) = IF AllZero(ExpectedProfile(u)) THEN 0 ELSE 1
        /\ \A uv \in BagToSet(user_prefs) : uv[2] = ExpectedProfile(uv[1])
        /\ \A r \in Runs :
               /\ ~Ended(r) => err[r] = "none"
               /\ err[r] = "ValueError" => clustered_predictions[r] = EmptyBag
               /\ err[r] = "ZeroDivisionError" =>
                      (Done /\ clustered_predictions[r] # EmptyBag
                            /\ SameScore(clustered_predictions[r]))

\* A user who rated two items of non-zero vectors that cancel and has no
\* profile, in a run that went on to its end.
C9_Witness ==
    /\ Done
    /\ \E u \in Users : RatedNonZero(u) /\ ProfilesOf(u) = 0

(* ---------------------------------- C10 -------------------------------- *)
NonZeroIn(c) == Cardinality({i \in NonZeroItems : ClusterOf(i) = c})

\* C10: in every output, every user with a non-zero profile gets
\* min(quota[c], number of non-zero-vector items in c) predictions from each
\* cluster c, whatever the user rated, so all users of the output get the same
\* number from each cluster; the quota comes from the shares of the whole
\* catalog, zero-vector items included.
C10_SameCountsForAllUsers ==
    \A r \in Runs : Returned(r) =>
        /\ \A u \in Users : ~AllZero(ExpectedProfile(u)) =>
               \A c \in Clusters : PredictionsIn(r, u, c) = Min(Quota(c), NonZeroIn(c))
        /\ \A u \in OutputUsers(r) : \A v \in OutputUsers(r) :
               /\ PredictionsOf(r, u) = PredictionsOf(r, v)
               /\ \A c \in Clusters : PredictionsIn(r, u, c) = PredictionsIn(r, v, c)

\* Two users of different profiles in one output, a zero item in the catalog.
C10_Witness ==
    /\ Returned(1)
    /\ Cardinality(OutputUsers(1)) = 2
    /\ ExpectedProfile(1) # ExpectedProfile(2)
    /\ NonZeroItems # CatalogItems
    /\ \E c \in Clusters : 0 < NonZeroIn(c) /\ NonZeroIn(c) < Quota(c)

(* ---------------------------------- C4 --------------------------------- *)
\* C4: when the kept predictions do not all have the same raw score, every raw
\* cosine score is in [-1, 1] and every rescaled score the run returns lies in
\* [min_rating, max_rating], the minimum and maximum over all input ratings.
C4_WithinRatingRange ==
    \A r \in Runs : (Returned(r) /\ ~SameScore(clustered_predictions[r])) =>
        /\ \A x \in BagToSet(predictions_with_clusters) : -1000 <= x[4] /\ x[4] <= 1000
        /\ \A p \in BagToSet(norm_predictions[r]) :
               /\ FLeq(FFromInt(min_rating), p[3])
               /\ FLeq(p[3], FFromInt(max_rating))

====
